---- MODULE Spec2Model ----
(***************************************************************************)
(* Model of src/core/default_allocator.rs: the three implementations of    *)
(* Allocator for DefaultAllocator (Static x Static, Dynamic x Any,         *)
(* Static x Dynamic), each with allocate_uninitialized and                 *)
(* allocate_from_iterator.  One call is in progress at a time; its local   *)
(* variables and its position in the function body live in `frame`.       *)
(* Each statement (and each iteration of a loop, each element pulled by    *)
(* collect) is one step.                                                   *)
(***************************************************************************)
EXTENDS Integers, Sequences, FiniteSets, TLC

VARIABLES frame

vars == <<frame>>

(* ------------------------------ bounds --------------------------------- *)

\* Largest element count of one dimension.
MaxDim == 2
\* Longest finite input sequence.
MaxLen == 5
\* Number of distinct scalar values.
NumScalars == 2

\* The heap holds at most this many elements: more than any finite input,
\* so that only a producer that never ends exhausts it.
HeapCap == MaxLen + 1

Scalars == 1..NumScalars
DimValues == 0..MaxDim

(* ---------------------------- dimensions ------------------------------- *)

\* A dimension descriptor: its kind is its type (DimName or Dynamic), its
\* value is what value() reports.
Static(n) == [kind |-> "Static", value |-> n]
Dynamic(n) == [kind |-> "Dynamic", value |-> n]

StaticDims == {Static(n) : n \in DimValues}
DynamicDims == {Dynamic(n) : n \in DimValues}
AnyDims == StaticDims \cup DynamicDims

(* ------------------------------ slots ---------------------------------- *)

\* An element slot: <<v>> holds the value v, <<>> is reserved memory that
\* holds no valid value.
Uninit == <<>>
Init_(v) == <<v>>

UninitSlots(n) == [i \in 1..n |-> Uninit]

(* ----------------------------- iterators ------------------------------- *)

\* The input sequence: finite (items, then None for ever) or a producer
\* that never ends (repeats items for ever).
FiniteIter(s) == [items |-> s, endless |-> FALSE]
EndlessIter(s) == [items |-> s, endless |-> TRUE]

RECURSIVE SeqsUpTo(_)
SeqsUpTo(n) ==
  IF n = 0 THEN {<<>>}
  ELSE LET prev == SeqsUpTo(n - 1)
       IN prev \cup {Append(s, v) : s \in {t \in prev : Len(t) = n - 1}, v \in Scalars}

FiniteIters == {FiniteIter(s) : s \in SeqsUpTo(MaxLen)}
EndlessIters == {EndlessIter(<<v>>) : v \in Scalars}
Iters == FiniteIters \cup EndlessIters

\* Iterator::next(): Some(e) and the iterator advanced, or None.
IterHasNext(it) == it.items # <<>>
IterPeek(it) == Head(it.items)
IterAdvance(it) ==
  IF it.endless THEN [it EXCEPT !.items = Append(Tail(it.items), Head(it.items))]
  ELSE [it EXCEPT !.items = Tail(it.items)]

(* ------------------------------ frames --------------------------------- *)

\* The buffer a call has not (yet) returned.
NoBuffer == <<>>

\* No call in progress.
Idle ==
  [pc |-> "idle", impl |-> "none", op |-> "none",
   nrows |-> Static(0), ncols |-> Static(0),
   iter |-> FiniteIter(<<>>), input |-> FiniteIter(<<>>),
   res |-> [kind |-> "none", dims |-> <<>>, data |-> <<>>],
   slot |-> 0, count |-> 0, written |-> {},
   pulled |-> 0, requests |-> 0, asserted |-> "no", ret |-> NoBuffer]

\* A call of `op` of implementation `impl` that has just been entered.
\* input, written, pulled, requests and asserted only record what the call
\* did: input is the sequence as passed, written the slots of res that were
\* assigned an element, pulled the elements the sequence yielded, requests
\* the calls of next() on it, asserted the outcome of the assert!.
Enter(impl, op, nrows, ncols, iter) ==
  [Idle EXCEPT !.pc = "entry", !.impl = impl, !.op = op,
               !.nrows = nrows, !.ncols = ncols,
               !.iter = iter, !.input = iter]

Terminated(f) == f.pc \in {"done", "panic", "abort"}

\* A call is a single-shot construction: one behaviour follows one call.
CanCall == frame.pc = "idle"

(* -------------------------- Static x Static ---------------------------- *)

\* Prod<R::Value, C::Value>: the length of MatrixArray<N, R, C>.
MatrixArrayLen(nrows, ncols) == nrows.value * ncols.value

\* mem::uninitialized() at type MatrixArray<N, R, C>.
StaticStatic_allocate_uninitialized(nrows, ncols) ==
  [kind |-> "MatrixArray", dims |-> <<>>,
   data |-> UninitSlots(MatrixArrayLen(nrows, ncols))]

\* A whole call of allocate_uninitialized: the buffer is returned at once.
StaticStatic_call_uninitialized(nrows, ncols) ==
  [Enter("StaticStatic", "allocate_uninitialized", nrows, ncols, FiniteIter(<<>>))
     EXCEPT !.pc = "done",
            !.ret = <<StaticStatic_allocate_uninitialized(nrows, ncols)>>]

\* let mut res = unsafe { Self::allocate_uninitialized(nrows, ncols) };
\* let mut count = 0;
StaticStatic_enter(nrows, ncols, iter) ==
  [Enter("StaticStatic", "allocate_from_iterator", nrows, ncols, iter)
     EXCEPT !.pc = "loop",
            !.res = StaticStatic_allocate_uninitialized(nrows, ncols),
            !.count = 0]

\* Faulty variant: the slots are walked from the last to the first (iter_mut().rev()).
StaticStatic_loop_rev(f) ==
  IF f.slot = Len(f.res.data)
  THEN [f EXCEPT !.pc = "assert"]
  ELSE IF IterHasNext(f.iter)
       THEN [f EXCEPT !.slot = f.slot + 1,
                      !.requests = f.requests + 1,
                      !.pulled = f.pulled + 1,
                      !.iter = IterAdvance(f.iter),
                      !.res.data[Len(f.res.data) - f.slot] = Init_(IterPeek(f.iter)),
                      !.written = f.written \cup {Len(f.res.data) - f.slot},
                      !.count = f.count + 1]
       ELSE [f EXCEPT !.slot = f.slot + 1,
                      !.requests = f.requests + 1,
                      !.pc = "assert"]

\* Faulty variant: the sequence is zipped with the slots (iter.into_iter().zip(
\* res.iter_mut())), so the sequence is asked before the slots.
StaticStatic_loop_zip_swapped(f) ==
  IF IterHasNext(f.iter)
  THEN IF f.slot = Len(f.res.data)
       THEN [f EXCEPT !.requests = f.requests + 1,
                      !.pulled = f.pulled + 1,
                      !.iter = IterAdvance(f.iter),
                      !.pc = "assert"]
       ELSE [f EXCEPT !.slot = f.slot + 1,
                      !.requests = f.requests + 1,
                      !.pulled = f.pulled + 1,
                      !.iter = IterAdvance(f.iter),
                      !.res.data[f.slot + 1] = Init_(IterPeek(f.iter)),
                      !.written = f.written \cup {f.slot + 1},
                      !.count = f.count + 1]
  ELSE [f EXCEPT !.requests = f.requests + 1, !.pc = "assert"]

\* One next() of res.iter_mut().zip(iter.into_iter()) and, when it yields a
\* pair, the loop body.  Zip asks the slot iterator first and asks the
\* sequence only when a slot was obtained.
StaticStatic_loop(f) ==
  IF f.slot = Len(f.res.data)
  THEN [f EXCEPT !.pc = "assert"]
  ELSE IF IterHasNext(f.iter)
       THEN [f EXCEPT !.slot = f.slot + 1,
                      !.requests = f.requests + 1,
                      !.pulled = f.pulled + 1,
                      !.iter = IterAdvance(f.iter),
                      !.res.data[f.slot + 1] = Init_(IterPeek(f.iter)),
                      !.written = f.written \cup {f.slot + 1},
                      !.count = f.count + 1]
       ELSE [f EXCEPT !.slot = f.slot + 1,
                      !.requests = f.requests + 1,
                      !.pc = "assert"]

\* Faulty variant: the assertion only rejects a count that is too large.
StaticStatic_assert_cond_le(f) == f.count <= f.nrows.value * f.ncols.value

\* count == nrows.value() * ncols.value()
StaticStatic_assert_cond(f) == f.count = f.nrows.value * f.ncols.value

\* assert!(count == nrows.value() * ncols.value(), "... iterator not long enough.")
StaticStatic_assert(f) ==
  IF StaticStatic_assert_cond(f)
  THEN [f EXCEPT !.pc = "return", !.asserted = "passed"]
  ELSE [f EXCEPT !.pc = "panic", !.asserted = "failed"]

\* res
StaticStatic_return(f) == [f EXCEPT !.pc = "done", !.ret = <<f.res>>]

(* --------------------------- Dynamic x Any ----------------------------- *)

\* Faulty variant: the length is the sum of the dimensions.
DynamicAny_length_sum(nrows, ncols) == nrows.value + ncols.value

\* let length = nrows.value() * ncols.value();
DynamicAny_length(nrows, ncols) == nrows.value * ncols.value

\* Vec::new(); reserve_exact(length); set_len(length); MatrixVec::new(nrows, ncols, res)
DynamicAny_allocate_uninitialized(nrows, ncols) ==
  [kind |-> "MatrixVec", dims |-> <<nrows, ncols>>,
   data |-> UninitSlots(DynamicAny_length(nrows, ncols))]

\* A whole call of allocate_uninitialized: the buffer is returned at once.
DynamicAny_call_uninitialized(nrows, ncols) ==
  [Enter("DynamicAny", "allocate_uninitialized", nrows, ncols, FiniteIter(<<>>))
     EXCEPT !.pc = "done",
            !.ret = <<DynamicAny_allocate_uninitialized(nrows, ncols)>>]

\* let it = iter.into_iter();
DynamicAny_enter(nrows, ncols, iter) ==
  [Enter("DynamicAny", "allocate_from_iterator", nrows, ncols, iter)
     EXCEPT !.pc = "collect",
            !.res = [kind |-> "Vec", dims |-> <<>>, data |-> <<>>]]

\* Faulty variant: only the required number of elements is collected (it.take(n)).
DynamicAny_collect_take(f) ==
  IF IterHasNext(f.iter) /\ Len(f.res.data) < f.nrows.value * f.ncols.value
  THEN [f EXCEPT !.requests = f.requests + 1,
                 !.pulled = f.pulled + 1,
                 !.iter = IterAdvance(f.iter),
                 !.res.data = Append(f.res.data, Init_(IterPeek(f.iter))),
                 !.written = f.written \cup {Len(f.res.data) + 1}]
  ELSE [f EXCEPT !.requests = f.requests + 1, !.pc = "assert"]

\* One next() of it.collect(): the element is pushed, None ends the
\* collection, and a push the heap cannot hold aborts the process.
DynamicAny_collect(f) ==
  IF IterHasNext(f.iter)
  THEN IF Len(f.res.data) = HeapCap
       THEN [f EXCEPT !.requests = f.requests + 1,
                      !.pulled = f.pulled + 1,
                      !.iter = IterAdvance(f.iter),
                      !.pc = "abort"]
       ELSE [f EXCEPT !.requests = f.requests + 1,
                      !.pulled = f.pulled + 1,
                      !.iter = IterAdvance(f.iter),
                      !.res.data = Append(f.res.data, Init_(IterPeek(f.iter))),
                      !.written = f.written \cup {Len(f.res.data) + 1}]
  ELSE [f EXCEPT !.requests = f.requests + 1, !.pc = "assert"]

\* Faulty variant: an empty collection is rejected.
DynamicAny_assert_cond_nonempty(f) ==
  Len(f.res.data) > 0 /\ Len(f.res.data) = f.nrows.value * f.ncols.value

\* res.len() == nrows.value() * ncols.value()
DynamicAny_assert_cond(f) == Len(f.res.data) = f.nrows.value * f.ncols.value

\* Faulty variant: the check does not stop the call (debug_assert! in a release build).
DynamicAny_assert_off(f) ==
  IF DynamicAny_assert_cond(f)
  THEN [f EXCEPT !.pc = "return", !.asserted = "passed"]
  ELSE [f EXCEPT !.pc = "return", !.asserted = "failed"]

\* assert!(res.len() == nrows.value() * ncols.value(), "...")
DynamicAny_assert(f) ==
  IF DynamicAny_assert_cond(f)
  THEN [f EXCEPT !.pc = "return", !.asserted = "passed"]
  ELSE [f EXCEPT !.pc = "panic", !.asserted = "failed"]

\* MatrixVec::new(nrows, ncols, res)
DynamicAny_return(f) ==
  [f EXCEPT !.pc = "done",
            !.ret = <<[kind |-> "MatrixVec", dims |-> <<f.nrows, f.ncols>>,
                       data |-> f.res.data]>>]

(* -------------------------- Static x Dynamic --------------------------- *)

\* let length = nrows.value() * ncols.value();
StaticDynamic_length(nrows, ncols) == nrows.value * ncols.value

\* Vec::new(); reserve_exact(length); set_len(length); MatrixVec::new(nrows, ncols, res)
StaticDynamic_allocate_uninitialized(nrows, ncols) ==
  [kind |-> "MatrixVec", dims |-> <<nrows, ncols>>,
   data |-> UninitSlots(StaticDynamic_length(nrows, ncols))]

\* A whole call of allocate_uninitialized: the buffer is returned at once.
StaticDynamic_call_uninitialized(nrows, ncols) ==
  [Enter("StaticDynamic", "allocate_uninitialized", nrows, ncols, FiniteIter(<<>>))
     EXCEPT !.pc = "done",
            !.ret = <<StaticDynamic_allocate_uninitialized(nrows, ncols)>>]

\* let it = iter.into_iter();
StaticDynamic_enter(nrows, ncols, iter) ==
  [Enter("StaticDynamic", "allocate_from_iterator", nrows, ncols, iter)
     EXCEPT !.pc = "collect",
            !.res = [kind |-> "Vec", dims |-> <<>>, data |-> <<>>]]

\* One next() of it.collect().
StaticDynamic_collect(f) ==
  IF IterHasNext(f.iter)
  THEN IF Len(f.res.data) = HeapCap
       THEN [f EXCEPT !.requests = f.requests + 1,
                      !.pulled = f.pulled + 1,
                      !.iter = IterAdvance(f.iter),
                      !.pc = "abort"]
       ELSE [f EXCEPT !.requests = f.requests + 1,
                      !.pulled = f.pulled + 1,
                      !.iter = IterAdvance(f.iter),
                      !.res.data = Append(f.res.data, Init_(IterPeek(f.iter))),
                      !.written = f.written \cup {Len(f.res.data) + 1}]
  ELSE [f EXCEPT !.requests = f.requests + 1, !.pc = "assert"]

\* Faulty variant: only a collection that is too short is rejected.
StaticDynamic_assert_cond_ge(f) == Len(f.res.data) >= f.nrows.value * f.ncols.value

\* res.len() == nrows.value() * ncols.value()
StaticDynamic_assert_cond(f) == Len(f.res.data) = f.nrows.value * f.ncols.value

\* assert!(res.len() == nrows.value() * ncols.value(), "...")
StaticDynamic_assert(f) ==
  IF StaticDynamic_assert_cond(f)
  THEN [f EXCEPT !.pc = "return", !.asserted = "passed"]
  ELSE [f EXCEPT !.pc = "panic", !.asserted = "failed"]

\* Faulty variant: the dimensions are passed in the wrong order.
StaticDynamic_return_swapped(f) ==
  [f EXCEPT !.pc = "done",
            !.ret = <<[kind |-> "MatrixVec", dims |-> <<f.ncols, f.nrows>>,
                       data |-> f.res.data]>>]

\* MatrixVec::new(nrows, ncols, res)
StaticDynamic_return(f) ==
  [f EXCEPT !.pc = "done",
            !.ret = <<[kind |-> "MatrixVec", dims |-> <<f.nrows, f.ncols>>,
                       data |-> f.res.data]>>]

(* ------------------------------ actions -------------------------------- *)

Init == frame = Idle

\* <DefaultAllocator as Allocator<N, R, C>>::allocate_uninitialized, R, C: DimName
SS_AllocateUninitialized ==
  /\ CanCall
  /\ \E nrows \in StaticDims, ncols \in StaticDims :
       frame' = StaticStatic_call_uninitialized(nrows, ncols)

\* <DefaultAllocator as Allocator<N, R, C>>::allocate_from_iterator is entered
SS_AllocateFromIterator ==
  /\ CanCall
  /\ \E nrows \in StaticDims, ncols \in StaticDims, iter \in Iters :
       frame' = StaticStatic_enter(nrows, ncols, iter)

SS_Loop ==
  /\ frame.impl = "StaticStatic" /\ frame.pc = "loop"
  /\ frame' = StaticStatic_loop(frame)

SS_Assert ==
  /\ frame.impl = "StaticStatic" /\ frame.pc = "assert"
  /\ frame' = StaticStatic_assert(frame)

SS_Return ==
  /\ frame.impl = "StaticStatic" /\ frame.pc = "return"
  /\ frame' = StaticStatic_return(frame)

\* <DefaultAllocator as Allocator<N, Dynamic, C>>::allocate_uninitialized, C: Dim
DA_AllocateUninitialized ==
  /\ CanCall
  /\ \E nrows \in DynamicDims, ncols \in AnyDims :
       frame' = DynamicAny_call_uninitialized(nrows, ncols)

\* <DefaultAllocator as Allocator<N, Dynamic, C>>::allocate_from_iterator is entered
DA_AllocateFromIterator ==
  /\ CanCall
  /\ \E nrows \in DynamicDims, ncols \in AnyDims, iter \in Iters :
       frame' = DynamicAny_enter(nrows, ncols, iter)

DA_Collect ==
  /\ frame.impl = "DynamicAny" /\ frame.pc = "collect"
  /\ frame' = DynamicAny_collect(frame)

DA_Assert ==
  /\ frame.impl = "DynamicAny" /\ frame.pc = "assert"
  /\ frame' = DynamicAny_assert(frame)

DA_Return ==
  /\ frame.impl = "DynamicAny" /\ frame.pc = "return"
  /\ frame' = DynamicAny_return(frame)

\* <DefaultAllocator as Allocator<N, R, Dynamic>>::allocate_uninitialized, R: DimName
SD_AllocateUninitialized ==
  /\ CanCall
  /\ \E nrows \in StaticDims, ncols \in DynamicDims :
       frame' = StaticDynamic_call_uninitialized(nrows, ncols)

\* <DefaultAllocator as Allocator<N, R, Dynamic>>::allocate_from_iterator is entered
SD_AllocateFromIterator ==
  /\ CanCall
  /\ \E nrows \in StaticDims, ncols \in DynamicDims, iter \in Iters :
       frame' = StaticDynamic_enter(nrows, ncols, iter)

SD_Collect ==
  /\ frame.impl = "StaticDynamic" /\ frame.pc = "collect"
  /\ frame' = StaticDynamic_collect(frame)

SD_Assert ==
  /\ frame.impl = "StaticDynamic" /\ frame.pc = "assert"
  /\ frame' = StaticDynamic_assert(frame)

SD_Return ==
  /\ frame.impl = "StaticDynamic" /\ frame.pc = "return"
  /\ frame' = StaticDynamic_return(frame)

\* The steps inside a call: the calling thread runs them without suspension.
Step ==
  \/ SS_Loop \/ SS_Assert \/ SS_Return
  \/ DA_Collect \/ DA_Assert \/ DA_Return
  \/ SD_Collect \/ SD_Assert \/ SD_Return

Call ==
  \/ SS_AllocateUninitialized \/ SS_AllocateFromIterator
  \/ DA_AllocateUninitialized \/ DA_AllocateFromIterator
  \/ SD_AllocateUninitialized \/ SD_AllocateFromIterator

Next == Call \/ Step

Spec == Init /\ [][Next]_vars

\* A call, once entered, keeps running: there are no suspension points.
LiveSpec == Init /\ [][Next]_vars /\ WF_vars(Step)

(* ------------------------- running a call ------------------------------ *)

\* The next statement of the call in frame f, selected by the
\* implementation the dimension types chose.
StepOf(f) ==
  CASE f.impl = "StaticStatic" /\ f.pc = "loop" -> StaticStatic_loop(f)
    [] f.impl = "StaticStatic" /\ f.pc = "assert" -> StaticStatic_assert(f)
    [] f.impl = "StaticStatic" /\ f.pc = "return" -> StaticStatic_return(f)
    [] f.impl = "DynamicAny" /\ f.pc = "collect" -> DynamicAny_collect(f)
    [] f.impl = "DynamicAny" /\ f.pc = "assert" -> DynamicAny_assert(f)
    [] f.impl = "DynamicAny" /\ f.pc = "return" -> DynamicAny_return(f)
    [] f.impl = "StaticDynamic" /\ f.pc = "collect" -> StaticDynamic_collect(f)
    [] f.impl = "StaticDynamic" /\ f.pc = "assert" -> StaticDynamic_assert(f)
    [] f.impl = "StaticDynamic" /\ f.pc = "return" -> StaticDynamic_return(f)
    [] OTHER -> f

\* The call in frame f run to its end.
RECURSIVE Run(_)
Run(f) == IF Terminated(f) \/ f.pc = "idle" THEN f ELSE Run(StepOf(f))

(* ------------------------ vocabulary of the claims --------------------- *)

\* rows.count() * cols.count() of the call in progress.
Required == frame.nrows.value * frame.ncols.value

FromIterator == frame.op = "allocate_from_iterator"
Uninitialized == frame.op = "allocate_uninitialized"
Finite == ~frame.input.endless
InputLen == Len(frame.input.items)
Returned == frame.ret # NoBuffer
Buffer == frame.ret[1]
Heap == frame.impl \in {"DynamicAny", "StaticDynamic"}

\* The sequence yields more / fewer elements than required.
Oversupplied == FromIterator /\ (frame.input.endless \/ InputLen > Required)
Undersupplied == FromIterator /\ Finite /\ InputLen < Required

Min(a, b) == IF a < b THEN a ELSE b

(* ------------------------------- claims -------------------------------- *)

\* C1 (as claimed): whenever the sequence yields more elements than
\* rows.count() * cols.count(), allocate_from_iterator fails fatally and
\* returns no buffer, under every policy.
C1_OversupplyFails ==
  Oversupplied => ~Returned /\ (Terminated(frame) => frame.pc # "done")

\* C2: whenever the sequence yields fewer elements than
\* rows.count() * cols.count(), allocate_from_iterator ends in the failed
\* assertion and returns no buffer; and a buffer it does return has every
\* slot written with an element of the sequence.
C2_UndersupplyFails ==
  /\ Undersupplied => ~Returned /\ (Terminated(frame) => frame.pc = "panic")
  /\ FromIterator /\ Returned =>
       \A i \in 1..Len(Buffer.data) : Buffer.data[i] # Uninit /\ i \in frame.written

\* A Static x Static call that wrote some slots and then failed the assertion.
C2_Witness ==
  /\ Undersupplied /\ frame.impl = "StaticStatic"
  /\ frame.pc = "panic" /\ frame.written # {}

\* C3: a buffer returned by allocate_uninitialized or allocate_from_iterator
\* has exactly rows.count() * cols.count() slots, under every policy.
C3_ShapeSize == Returned => Len(Buffer.data) = Required

\* A heap buffer of 1 x 2 returned by allocate_uninitialized.
C3_Witness ==
  /\ Returned /\ Uninitialized /\ frame.impl = "DynamicAny"
  /\ frame.nrows.value = 1 /\ frame.ncols.value = 2

\* C4: given a sequence of exactly rows.count() * cols.count() values,
\* allocate_from_iterator returns a buffer whose slot i holds the i-th
\* element the sequence yielded, under every policy.
C4_RoundTrip ==
  FromIterator /\ Finite /\ InputLen = Required /\ Terminated(frame) =>
    /\ frame.pc = "done" /\ Returned
    /\ Len(Buffer.data) = InputLen
    /\ \A i \in 1..InputLen : Buffer.data[i] = Init_(frame.input.items[i])

\* An inline buffer returned for a sequence of four values, not all equal.
C4_Witness ==
  /\ FromIterator /\ frame.impl = "StaticStatic" /\ frame.pc = "done"
  /\ InputLen = 4 /\ Required = 4
  /\ frame.input.items[1] # frame.input.items[4]

\* C5 (as claimed): when the sequence is longer than required, exactly
\* rows.count() * cols.count() elements have been written to element
\* storage when the assertion is evaluated, under every policy.
C5_ExactlyRequiredWritten ==
  Oversupplied /\ frame.asserted # "no" => frame.written = 1..Required

\* C5 (amended): when the sequence is longer than required, no write lands
\* outside the storage; Static x Static writes exactly the required number
\* of elements, all within the required slots; the heap policies push every
\* element of the sequence to the collected vector before the assertion
\* fails, and return no buffer.
C5_OversupplyWrites ==
  Oversupplied =>
    /\ frame.written \subseteq 1..Len(frame.res.data)
    /\ frame.impl = "StaticStatic" =>
         /\ frame.written \subseteq 1..Required
         /\ frame.pc \in {"assert", "return", "done", "panic"} =>
              frame.written = 1..Required
    /\ Heap =>
         /\ ~Returned
         /\ frame.asserted # "no" =>
              /\ frame.asserted = "failed" /\ Finite
              /\ frame.written = 1..InputLen

\* A heap call that collected more than the required two or more elements
\* and failed the assertion.
C5_Witness ==
  /\ Oversupplied /\ Heap /\ frame.pc = "panic"
  /\ Required >= 2 /\ Cardinality(frame.written) > Required

\* C6: a (Static, Static) pair yields the inline buffer, which stores no
\* dimensions; a pair with a Dynamic dimension yields the heap buffer, which
\* stores the requested (nrows, ncols); for both operations.
C6_Selection ==
  Returned =>
    IF frame.nrows.kind = "Static" /\ frame.ncols.kind = "Static"
    THEN Buffer.kind = "MatrixArray" /\ Buffer.dims = <<>>
    ELSE Buffer.kind = "MatrixVec" /\ Buffer.dims = <<frame.nrows, frame.ncols>>

\* A Static x Dynamic heap buffer of 1 x 2 built from a sequence.
C6_Witness ==
  /\ Returned /\ FromIterator /\ frame.impl = "StaticDynamic"
  /\ frame.nrows.value = 1 /\ frame.ncols.value = 2

\* C7: with rows.count() = 0 or cols.count() = 0, allocate_uninitialized
\* returns a buffer of no slots, and allocate_from_iterator given an empty
\* sequence passes the assertion and returns a buffer of no slots.
C7_ZeroSize ==
  (/\ Required = 0 /\ Terminated(frame)
   /\ Uninitialized \/ (FromIterator /\ Finite /\ InputLen = 0))
  => (/\ frame.pc = "done" /\ Returned
      /\ Len(Buffer.data) = 0
      /\ FromIterator => frame.asserted = "passed")

\* A Dynamic(0) x 2 buffer built from the empty sequence.
C7_Witness ==
  /\ FromIterator /\ InputLen = 0 /\ frame.impl = "DynamicAny"
  /\ frame.nrows.value = 0 /\ frame.ncols.value = 2 /\ frame.pc = "done"

\* The call has finished pulling: the zip ran out of slots, or the sequence
\* answered None to the last next().
PullingFinished(f) ==
  \/ f.impl = "StaticStatic" /\ f.slot = Len(f.res.data)
  \/ f.requests = f.pulled + 1

\* C8: the assertion of allocate_from_iterator is evaluated only once the
\* call has finished pulling from the sequence, nothing is pulled after it,
\* and the buffer is returned only after the assertion passed.
C8_CheckAfterConsumption ==
  [][/\ frame'.asserted # frame.asserted => PullingFinished(frame)
     /\ frame'.requests # frame.requests =>
          frame.asserted = "no" /\ frame'.asserted = "no"
     /\ frame'.op = "allocate_from_iterator" /\ frame'.ret # frame.ret =>
          frame.asserted = "passed"]_vars

\* A heap call that pulled two or more elements, passed the assertion and
\* returned.
C8_Witness ==
  /\ FromIterator /\ Heap /\ Returned
  /\ frame.pulled >= 2 /\ frame.asserted = "passed"

\* What a caller observes of a terminated call: how it ended, and the
\* returned buffer's slot count, stored dimension values and contents.
Outcome(f) ==
  IF f.ret = NoBuffer
  THEN [pc |-> f.pc, kind |-> "none", slots |-> 0, dims |-> <<>>, data |-> <<>>]
  ELSE [pc |-> f.pc, kind |-> f.ret[1].kind,
        slots |-> Len(f.ret[1].data),
        dims |-> <<f.ret[1].dims[1].value, f.ret[1].dims[2].value>>,
        data |-> f.ret[1].data]

\* The same call (same operation, same counts, same sequence) made on the
\* Static x Dynamic implementation.
AsStaticDynamic(f) ==
  IF f.op = "allocate_uninitialized"
  THEN StaticDynamic_call_uninitialized(Static(f.nrows.value), Dynamic(f.ncols.value))
  ELSE StaticDynamic_enter(Static(f.nrows.value), Dynamic(f.ncols.value), f.input)

\* The same call made on the Dynamic x Any implementation, with a column
\* dimension of kind k.
AsDynamicAny(f, k) ==
  LET ncols == [kind |-> k, value |-> f.ncols.value]
  IN IF f.op = "allocate_uninitialized"
     THEN DynamicAny_call_uninitialized(Dynamic(f.nrows.value), ncols)
     ELSE DynamicAny_enter(Dynamic(f.nrows.value), ncols, f.input)

\* C9: for the same counts and the same sequence, Dynamic x Any and
\* Static x Dynamic end the same way with the same slot count, stored
\* dimension values and slot contents, for both operations.
C9_HeapPoliciesAgree ==
  /\ frame.impl = "DynamicAny" /\ Terminated(frame) =>
       Outcome(frame) = Outcome(Run(AsStaticDynamic(frame)))
  /\ frame.impl = "StaticDynamic" /\ Terminated(frame) =>
       \A k \in {"Static", "Dynamic"} :
         Outcome(frame) = Outcome(Run(AsDynamicAny(frame, k)))

\* A Static x Dynamic call that returned a buffer of two or more elements.
C9_Witness ==
  /\ frame.impl = "StaticDynamic" /\ FromIterator
  /\ frame.pc = "done" /\ Required >= 2

\* C10: Static x Static never asks the sequence for an element once the
\* slots are filled and has pulled min(L, required) elements when the loop
\* is over (required elements of a producer that never ends); the heap
\* policies have pulled the whole sequence when the assertion is evaluated;
\* and a Static x Static call always ends, whatever the producer.
C10_StaticPullsOnlyRequired ==
  /\ [](frame.impl = "StaticStatic" /\ FromIterator =>
          /\ frame.requests <= Required
          /\ frame.pc \in {"assert", "return", "done", "panic"} =>
               frame.pulled = IF Finite THEN Min(InputLen, Required) ELSE Required)
  /\ [](Heap /\ frame.asserted # "no" =>
          Finite /\ frame.pulled = InputLen /\ ~IterHasNext(frame.iter))
  /\ (frame.impl = "StaticStatic" /\ frame.pc = "loop") ~>
       (frame.pc \in {"done", "panic"})

\* A Static x Static call that returned a 2 x 2 buffer filled from a
\* producer that never ends.
C10_Witness ==
  /\ frame.impl = "StaticStatic" /\ frame.input.endless
  /\ frame.pc = "done" /\ Required = 4 /\ frame.pulled = 4

====
